---- MODULE Spec2Model ----
(***************************************************************************)
(* Model of StratisOAuth2ProviderSession (the OAuth2 session lifecycle):   *)
(* one session instance per request, its storable data, the two backing   *)
(* stores (the request's session object and the bearer token cache) and    *)
(* the provider calls made by update().                                    *)
(*                                                                         *)
(* A behaviour follows the successive requests of one client, which either *)
(* sends a bearer token with every request or none: the session object of  *)
(* a cookie client and the cache entry of a bearer token are written by    *)
(* their own sessions only.  update() is modelled await by await; the      *)
(* clock may advance while a provider call is awaited.                     *)
(*                                                                         *)
(* Further specifications over the same variables model two concurrent     *)
(* requests of one client (SpecConc), the username getter (SpecUser), the  *)
(* request middleware (SpecMw), the requests client's redirect following   *)
(* (SpecRq) and the browser's websocket client (SpecWs).                   *)
(***************************************************************************)
EXTENDS Integers, Sequences, FiniteSets, TLC

(* ---------------------------------------------------------------- bounds *)

\* milliseconds_utc_since_epoc() is modelled in units of 10 seconds.
RecheckInterval == 1
RefreshInterval == 2
\* The clock starts well after the epoch: a stamp that was never written
\* (read as 0 by the getters) is older than both intervals.
StartTime == 2
MaxTime == 4
\* The longest chain of requests one request() call is followed for.
MaxChain == 4
\* The number of api_call invocations of one page.
MaxCalls == 3

(* ---------------------------------------------------------------- values *)

\* null / undefined / absent key of a string valued field.
NULL == "<null>"
\* absent key of a timestamp field.
NoTs == -1

BearerToken == "A1"

\* values of token_info: absent, {active: true}, {active: false}
TokenInfos == {"active", "inactive"}

Fields == {"access_token", "id_token", "refresh_token", "scope", "token_info"}

\* The session data object {} (no keys).
EmptyData ==
  [access_token |-> NULL, id_token |-> NULL, refresh_token |-> NULL,
   scope |-> NULL, token_info |-> NULL,
   invalidated |-> NoTs, updated |-> NoTs, refreshed |-> NoTs,
   introspected |-> NoTs]

\* No object stored under the key (the session key of req.session, or the
\* bearer token in the cache): a record no session data object equals.
NoData == [EmptyData EXCEPT !.access_token = "<nodata>"]

\* A token endpoint response (code exchange or refresh).
Resp(a, r, i, s) ==
  [access_token |-> a, id_token |-> i, refresh_token |-> r, scope |-> s,
   token_info |-> NULL]

\* The responses the identity provider may give to a token request.
TokenResponses ==
  { Resp("A1", "R1", "I1", "S1"),
    Resp("A2", "R2", NULL, NULL),
    Resp("A2", NULL, NULL, NULL),
    Resp("", NULL, NULL, NULL),
    Resp(NULL, "R2", NULL, NULL) }

\* The object {token_info} handed to update_session_data by update_token_info.
\* The refresh token exchange threw.
Failed == Resp("<fail>", NULL, NULL, NULL)

InfoResp(ti) ==
  [access_token |-> NULL, id_token |-> NULL, refresh_token |-> NULL,
   scope |-> NULL, token_info |-> ti]

(* ----------------------------------------------------------------- state *)

VARIABLES
  now,            \* milliseconds_utc_since_epoc()
  introspect_url, \* provider.requests.introspect_url != null
  has_session,    \* req.session != null
  bearer_token,   \* the bearer token of the client's requests, if any
  session_type,   \* this.session_type
  data,           \* this._data
  stored,         \* req.session[provider.session_key]
  cache,          \* provider.bearer_token_session_cache_bank.get(BearerToken)
  alias,          \* the stored object of this instance's store is this._data
  pc,             \* position of the running update()
  op,             \* the operation running or last completed
  force,          \* update(force)
  ret,            \* its result: "pending", "true", "false", "throw"
  pre,            \* this._data when the operation started
  t0,             \* time the operation started
  calls,          \* provider calls issued by the operation
  saves,          \* save() calls made by the operation
  t1,             \* time the operation returned
  prev,           \* summary of the operation before it
  persisted,      \* two requests: the session data the session store holds
  reqs,           \* two requests: each request's session instance
  info,           \* username: this.data.token_info, its claims
  paths,          \* username: provider.username_from_token_info_path
  uop,            \* username: the last operation on the instance
  uname,          \* username: what the last read returned
  ufirst,         \* username: what the first read of the instance returned
  usame,          \* username: what the first read of this token_info returned
  mw,             \* middleware: one request passing through intercept()
  rq,             \* requests client: one request() call and the server it meets
  ws              \* websocket client: the socket and the api_call invocations

vars == <<now, introspect_url, has_session, bearer_token, session_type, data, stored, cache,
          alias, pc, op, force, ret, pre, t0, calls, saves, t1, prev,
          persisted, reqs, info, paths, uop, uname, ufirst, usame, mw, rq, ws>>

(* --------------------------------------------------------------- getters *)

updated(d) == IF d.updated = NoTs THEN 0 ELSE d.updated

refreshed(d) == IF d.refreshed = NoTs THEN 0 ELSE d.refreshed

\* Variant of active that never reports an inactive token; C8 fails on it.
active_whatever_token_info(d) == TRUE

active(d) ==
  IF d.token_info = NULL THEN TRUE ELSE d.token_info = "active"

\* Variant of is_valid_session without the access_token test; C1 fails on
\* it.
is_valid_session_without_token(d, st) ==
  IF st = "bearer" THEN TRUE ELSE d.invalidated = NoTs

\* Variant of is_valid_session that takes an invalidated session_state
\* session for valid; C34 fails on it.
is_valid_session_any_source(d, st) == d.access_token # NULL

\* Variant of is_valid_session that wants an active token_info; C22 fails
\* on it.
is_valid_session_when_active(d, st) ==
  /\ d.access_token # NULL
  /\ st = "bearer" \/ d.invalidated = NoTs
  /\ active(d)

is_valid_session(d, st) ==
  IF d.access_token = NULL THEN FALSE
  ELSE IF st = "bearer" THEN TRUE
  ELSE d.invalidated = NoTs

is_valid_token_info(d) ==
  IF ~introspect_url THEN TRUE ELSE d.token_info # NULL

is_refresh_elapsed(d, st, t) ==
  IF st = "bearer" THEN FALSE
  ELSE IF d.refresh_token = NULL THEN FALSE
  ELSE t - refreshed(d) >= RefreshInterval

\* Variant of is_recheck_elapsed with > for >=; C3 fails on it.
is_recheck_elapsed_strictly(d, t) == t - updated(d) > RecheckInterval

\* Variant of is_recheck_elapsed that reads introspected, a stamp nothing
\* writes, for updated; C9 fails on it.
is_recheck_elapsed_since_introspected(d, t) ==
  t - (IF d.introspected = NoTs THEN 0 ELSE d.introspected) >= RecheckInterval

is_recheck_elapsed(d, t) == t - updated(d) >= RecheckInterval

needs_update(d, st, t) ==
  IF ~is_valid_session(d, st) THEN FALSE
  ELSE \/ ~active(d)
       \/ ~is_valid_token_info(d)
       \/ is_recheck_elapsed(d, t)
       \/ is_refresh_elapsed(d, st, t)

is_authenticated(d, st, t) ==
  is_valid_session(d, st) /\ ~needs_update(d, st, t)

(* -------------------------------------------------------------- mutators *)

\* JavaScript truthiness of a string valued field.
Truthy(v) == v # NULL /\ v # ""

\* Variant of invalidate that stamps nothing; C5 fails on it.
invalidate_without_stamp(d, t) == d

invalidate(d, t) == [d EXCEPT !.invalidated = t]

\* Variant of update_session_data that keeps invalidated; C2 fails on it.
update_session_data_keeping_invalidated(d, resp, t) ==
  LET d1 == [f \in DOMAIN d |->
               IF f \in Fields /\ resp[f] # NULL THEN resp[f] ELSE d[f]]
      d2 == [d1 EXCEPT !.updated = t]
  IN IF resp.refresh_token # NULL THEN [d2 EXCEPT !.refreshed = t] ELSE d2

\* Variant of update_session_data that stamps refreshed on every response;
\* C7 fails on it.
update_session_data_always_refreshed(d, resp, t) ==
  LET d1 == [f \in DOMAIN d |->
               IF f \in Fields /\ resp[f] # NULL THEN resp[f] ELSE d[f]]
      d2 == [d1 EXCEPT !.updated = t, !.refreshed = t]
  IN IF Truthy(resp.access_token)
     THEN [d2 EXCEPT !.invalidated = NoTs] ELSE d2

\* Variant of update_session_data that assigns every entry, null ones too;
\* C12 fails on it.
update_session_data_assigning_nulls(d, resp, t) ==
  LET d1 == [f \in DOMAIN d |-> IF f \in Fields THEN resp[f] ELSE d[f]]
      d2 == [d1 EXCEPT !.updated = t]
      d3 == IF resp.refresh_token # NULL
            THEN [d2 EXCEPT !.refreshed = t] ELSE d2
  IN IF Truthy(resp.access_token)
     THEN [d3 EXCEPT !.invalidated = NoTs] ELSE d3

\* update_session_data without its trailing save().
update_session_data(d, resp, t) ==
  LET d1 == [f \in DOMAIN d |->
               IF f \in Fields /\ resp[f] # NULL THEN resp[f] ELSE d[f]]
      d2 == [d1 EXCEPT !.updated = t]
      d3 == IF resp.refresh_token # NULL
            THEN [d2 EXCEPT !.refreshed = t] ELSE d2
  IN IF Truthy(resp.access_token)
     THEN [d3 EXCEPT !.invalidated = NoTs] ELSE d3

\* Variant of load_data_from_bearer_token that drops the cache entry; C10
\* fails on it.
load_data_from_bearer_token_only(entry, token) ==
  [EmptyData EXCEPT !.access_token = token]

\* Variant of load_data_from_bearer_token that does not write the token; C21
\* fails on it.
load_data_from_bearer_token_without_token(entry, token) ==
  LET base == IF entry = NoData THEN EmptyData ELSE entry
  IN [base EXCEPT !.id_token = NULL]

\* load_data_from_bearer_token: a copy of the cache entry with the token.
load_data_from_bearer_token(entry, token) ==
  LET base == IF entry = NoData THEN EmptyData ELSE entry
  IN [base EXCEPT !.access_token = token, !.id_token = NULL]

\* load_data_from_session: the object under the session key, or {}.
load_data_from_session(hs, value) ==
  IF hs /\ value # NoData THEN value ELSE EmptyData

(* ---------------------------------------------------------------- stores *)

\* An in-place mutation of this._data is a mutation of the stored object
\* when the store holds that very object (al: after load from the session
\* object, after a save that stored it).
stored_through(al, d) ==
  IF al /\ session_type = "session_state" THEN d ELSE stored

cache_through(al, d) ==
  IF al /\ session_type = "bearer" THEN d ELSE cache

\* Variant of save that does not test for the session object; C15 fails on
\* it.
save_result_without_session_test(d) ==
  CASE session_type = "bearer" ->
         IF d.access_token = NULL THEN "false" ELSE "true"
    [] session_type = "session_state" -> "true"
    [] OTHER -> "throw"

\* Variant of save that returns false on an unknown source; C16 fails on
\* it.
save_result_unknown_source_false(d) ==
  CASE session_type = "bearer" ->
         IF d.access_token = NULL THEN "false" ELSE "true"
    [] session_type = "session_state" ->
         IF ~has_session THEN "false" ELSE "true"
    [] OTHER -> "false"

\* save(): its result for this._data = d.
save_result(d) ==
  CASE session_type = "bearer" ->
         IF d.access_token = NULL THEN "false" ELSE "true"
    [] session_type = "session_state" ->
         IF ~has_session THEN "false" ELSE "true"
    [] OTHER -> "throw"

\* Variant of save that writes the session key whatever the source; C14
\* fails on it.
save_stored_any_source(al, d) ==
  IF has_session THEN d ELSE stored_through(al, d)

\* save(): the session key of req.session after it.
save_stored(al, d) ==
  IF session_type = "session_state" /\ has_session THEN d
  ELSE stored_through(al, d)

\* save(): the cache entry of the bearer token after it.
save_cache(al, d) ==
  IF session_type = "bearer" /\ d.access_token # NULL THEN d
  ELSE cache_through(al, d)

\* The instance goes on with this._data = d mutated in place, no save().
Mutate(d) ==
  /\ data' = d
  /\ stored' = stored_through(alias, d)
  /\ cache' = cache_through(alias, d)
  /\ alias' = alias

\* The instance calls save() with this._data = d.
Save(al, d) ==
  /\ data' = d
  /\ stored' = save_stored(al, d)
  /\ cache' = save_cache(al, d)
  /\ alias' = (al \/ save_result(d) = "true")

(* ------------------------------------------------------------ operations *)

\* A provider call: the token sent, and what came back ("fail", the
\* token_info of an introspection, the access_token and refresh_token of a
\* token response).
Call(kind, token, out, rt) ==
  [kind |-> kind, token |-> token, out |-> out, rt |-> rt]

\* The call succeeded, reported the token active when it is an
\* introspection, and returned a new refresh_token when it is a refresh.
CleanCall(c) ==
  /\ c.out \notin {"fail", "inactive"}
  /\ c.kind = "refresh" => c.rt # NULL

\* What the next operation remembers of the one that just returned: an
\* unforced update() that returned at this very instant ("update_noop": it
\* returned false; "update_clean": it made provider calls, all of them
\* clean, and no time elapsed since it started; "update_other" otherwise),
\* a save() that returned true and whose store still holds the object, or
\* a clear().
Summary ==
  CASE op = "update" /\ ~force /\ t1 = now /\ ret = "false" -> "update_noop"
    [] op = "update" /\ ~force /\ t1 = now /\ ret # "false" ->
         IF /\ ret = "true"
            /\ t0 = now
            /\ calls # <<>>
            /\ \A i \in 1..Len(calls) : CleanCall(calls[i])
         THEN "update_clean" ELSE "update_other"
    [] op = "save" /\ ret = "true" /\ alias -> "saved"
    [] op = "clear" -> "cleared"
    [] OTHER -> "other"

\* An operation starts on the idle instance.
Begin(o, f) ==
  /\ pc = "idle"
  /\ op' = o
  /\ force' = f
  /\ pre' = data
  /\ t0' = now
  /\ prev' = IF \/ o = "update" /\ ~f /\ op = "update"
                \/ o = "load" /\ op \in {"save", "clear"}
             THEN Summary ELSE "other"

\* The two concurrent requests of one client.
Requests == {1, 2}

\* A request whose session instance is constructed and not loaded yet: where
\* its handling stands, this._data, the data load() found, the token
\* response its refresh got and whether the refresh was due when update()
\* started.
NewRequest ==
  [pc |-> "new", data |-> EmptyData, loaded |-> EmptyData, resp |-> Failed,
   due |-> FALSE]

\* token_info absent.
NoInfo == [sub |-> "<noinfo>", name |-> NULL, _username |-> NULL]

(* ------------------------------------------- values of the other views *)

\* stratis_request.access_mode.
AccessModes == {"public", "secure", "private"}

\* What the requested path resolves to: a plain file, a code file, a page,
\* or a page requested over a websocket upgrade.
FileKinds == {"file", "codefile", "page", "websocket"}

\* What the authenticate callback did: the first argument it gave to the
\* next callback ("not_called" when it never called it), whether it ended
\* the response, whether it threw.
AuthOutcomes ==
  [next_arg : {"not_called", "no_args", "Error", "other"},
   ended : BOOLEAN, threw : BOOLEAN]

\* authenticate was not called.
NoAuth == [next_arg |-> "unset", ended |-> FALSE, threw |-> FALSE]

\* The middleware before a request, with the options' defaults.
IdleMw ==
  [pc |-> "idle", has_filter |-> FALSE, has_authenticate |-> FALSE,
   next_on_private |-> FALSE, next_on_not_found |-> TRUE,
   ignore_empty_path |-> TRUE, root |-> FALSE, exists |-> FALSE,
   mode |-> "unresolved", kind |-> "unresolved", auth_called |-> FALSE,
   auth |-> NoAuth, permitted |-> "unset", served |-> "none",
   result |-> "none"]

\* The hosts of the redirect graph.
Sites == {"a", "b"}

\* A URL string: the resource it names and how it is written. "href" is the
\* serialisation new URL(..).href gives, "raw" another absolute spelling of
\* the same URL (no trailing slash on the origin, upper case host, default
\* port), "relative" a path without origin.
Url(site, form) == [site |-> site, form |-> form]

\* No location header.
NoLocation == Url("<none>", "<none>")

Locations == {Url(s, f) : s \in Sites, f \in {"href", "raw", "relative"}}

\* The URLs request() is called with by its user.
StartUrls == {Url(s, f) : s \in Sites, f \in {"href", "raw"}}

\* What a host answers: a status and a location header, or no answer at all
\* (status "fail": the request errors).
Answers ==
  {[status |-> st, location |-> NoLocation] : st \in {"200", "302", "fail"}}
    \cup {[status |-> st, location |-> l] : st \in {"302", "303"}, l \in Locations}

\* The requests client before a call.
IdleRq ==
  [pc |-> "idle", url |-> NoLocation, visited |-> <<>>, requested |-> <<>>,
   graph |-> [s \in Sites |-> [status |-> "200", location |-> NoLocation]],
   follow |-> FALSE, result |-> "none"]

\* The api_call invocations of the page; the rid of invocation c is c.
Calls == 1..MaxCalls

\* The rids a message from the server can carry: those of the invocations
\* and one that belongs to none of them.
Rids == 0..MaxCalls

\* An api_call that was not made yet: whether its promise is settled and by
\* what, whether its listener is registered, whether its timer entry is
\* set, how often its resolve or reject was called.
NewCall ==
  [state |-> "new", by |-> "none", listener |-> FALSE, timer |-> FALSE,
   settles |-> 0]

\* The websocket client after its constructor.
IdleWs == [socket |-> "connecting", calls |-> [c \in Calls |-> NewCall]]

\* The state of the request middleware, the requests client and the
\* browser's websocket client.
Serving == <<mw, rq, ws>>

InitServing ==
  /\ mw = IdleMw
  /\ rq = IdleRq
  /\ ws = IdleWs

\* The state of two requests handled concurrently.
Concurrent == <<persisted, reqs>>

\* The state of the username getter.
Naming == <<info, paths, uop, uname, ufirst, usame>>

\* What the operations of one session instance leave alone: the provider's
\* and the request's configuration, and the state of the other views.
Config ==
  <<introspect_url, has_session, bearer_token, Concurrent, Naming, Serving>>

\* The session instance after its constructor.
InitSession ==
  /\ session_type = "none"
  /\ data = EmptyData
  /\ stored = NoData
  /\ cache = NoData
  /\ alias = FALSE
  /\ pc = "idle"
  /\ op = "new"
  /\ force = FALSE
  /\ ret = "true"
  /\ pre = EmptyData
  /\ t0 = StartTime
  /\ calls = <<>>
  /\ saves = 0
  /\ t1 = StartTime
  /\ prev = "other"

InitConcurrent ==
  /\ persisted = NoData
  /\ reqs = [i \in Requests |-> NewRequest]

InitNaming ==
  /\ info = NoInfo
  /\ paths = <<>>
  /\ uop = "new"
  /\ uname = "<none>"
  /\ ufirst = "<none>"
  /\ usame = "<none>"

Init ==
  /\ now = StartTime
  /\ introspect_url \in BOOLEAN
  /\ has_session \in BOOLEAN
  /\ bearer_token \in {NULL, BearerToken}
  /\ InitSession
  /\ InitConcurrent
  /\ InitNaming
  /\ InitServing

\* milliseconds_utc_since_epoc() advances, also while a provider call is
\* awaited.
Tick ==
  /\ now < MaxTime
  /\ now' = now + 1
  /\ UNCHANGED <<Config, session_type, data, stored, cache, alias, pc, op,
                 force, ret, pre, t0, calls, saves, t1, prev>>

\* StratisOAuth2ProviderSession.load(provider, req, bearer_token): a new
\* request of the client gets a new instance, loaded from the bearer token
\* when the request carries one, else from the request's session object.
Load ==
  /\ Begin("load", FALSE)
  /\ session_type' = IF bearer_token # NULL THEN "bearer" ELSE "session_state"
  /\ data' = IF bearer_token # NULL
             THEN load_data_from_bearer_token(cache, bearer_token)
             ELSE load_data_from_session(has_session, stored)
  /\ alias' = (bearer_token = NULL /\ has_session /\ stored # NoData)
  /\ ret' = "true"
  /\ calls' = <<>>
  /\ saves' = 0
  /\ t1' = now
  /\ UNCHANGED <<now, Config, stored, cache, pc>>

\* The authorization code flow applies the token response of the code
\* exchange: update_session_data(resp) with save = true, on the session
\* loaded from the session object or on an instance that was only
\* constructed.
ExchangeCode(resp) ==
  /\ Begin("exchange", FALSE)
  /\ session_type \in {"session_state", "none"}
  /\ Save(alias, update_session_data(data, resp, now))
  /\ ret' = IF save_result(data) = "throw" THEN "throw" ELSE "true"
  /\ calls' = <<Call("exchange", NULL, resp.access_token, resp.refresh_token)>>
  /\ saves' = 1
  /\ t1' = now
  /\ UNCHANGED <<now, Config, session_type, pc>>

\* save() called on the idle instance.
SaveCall ==
  /\ Begin("save", FALSE)
  /\ Save(alias, data)
  /\ ret' = save_result(data)
  /\ calls' = <<>>
  /\ saves' = 1
  /\ t1' = now
  /\ UNCHANGED <<now, Config, session_type, pc>>

\* clear(): this._data = {} (a new object), then save().
Clear ==
  /\ Begin("clear", FALSE)
  /\ Save(FALSE, EmptyData)
  /\ ret' = save_result(EmptyData)
  /\ calls' = <<>>
  /\ saves' = 1
  /\ t1' = now
  /\ UNCHANGED <<now, Config, session_type, pc>>

\* The bearer token cache drops the entry (capacity or TTL).
CacheEvict ==
  /\ cache # NoData
  /\ cache' = NoData
  /\ alias' = IF session_type = "bearer" THEN FALSE ELSE alias
  /\ UNCHANGED <<now, Config, session_type, data, stored, pc, op, force, ret,
                 pre, t0, calls, saves, t1, prev>>

(* ---------------------------------------------------------------- update *)

\* What provider.requests.introspect may do: throw, or resolve to a
\* token_info that reports active or not.
IntrospectOutcomes == {"fail"} \cup TokenInfos

\* What provider.requests.get_token_from_refresh_token may do: throw, or
\* resolve to a token response.
RefreshOutcomes == {Failed} \cup TokenResponses

\* Variant of update_token_info that stamps updated when the call failed;
\* C30 fails on it.
update_token_info_stamping_failures(d, o, t) ==
  IF ~introspect_url THEN d
  ELSE IF o = "fail" THEN [d EXCEPT !.updated = t]
  ELSE update_session_data(d, InfoResp(o), t)

\* update_token_info(save = false, throw_errors): this._data after it.
update_token_info(d, o, t) ==
  IF ~introspect_url \/ o = "fail" THEN d
  ELSE update_session_data(d, InfoResp(o), t)

\* Variant of update_token_info that rethrows whatever throw_errors says;
\* C17 fails on it.
update_token_info_result_rethrowing(o, throw_errors) ==
  IF ~introspect_url THEN "true"
  ELSE IF o = "fail" THEN "throw"
  ELSE "true"

\* update_token_info(save = false, throw_errors = false): its result.
update_token_info_result(o, throw_errors) ==
  IF ~introspect_url THEN "true"
  ELSE IF o = "fail" THEN (IF throw_errors THEN "throw" ELSE "false")
  ELSE "true"

\* Variant of the introspection that sends the access_token update() started
\* with; C25 fails on it.
introspect_calls_with_old_token(d, o) ==
  IF introspect_url
  THEN Append(calls, Call("introspect", pre.access_token, o, NULL))
  ELSE calls

\* The provider calls logged once update_token_info has returned.
introspect_calls(d, o) ==
  IF introspect_url
  THEN Append(calls, Call("introspect", d.access_token, o, NULL))
  ELSE calls

\* update() lines 334-344: save(), log, return true.
Finish(d) ==
  /\ Save(alias, d)
  /\ saves' = 1
  /\ ret' = IF save_result(d) = "throw" THEN "throw" ELSE "true"
  /\ pc' = "idle"
  /\ t1' = now

\* update() awaits a provider call.
Await(p, d) ==
  /\ Mutate(d)
  /\ pc' = p
  /\ saves' = 0
  /\ ret' = "pending"
  /\ t1' = t1

\* Variant of the refresh branch that invalidates without trying the
\* refresh; C6 fails on it.
RefreshBranchWithoutRefresh(d) == Finish(invalidate(d, now))

\* update() lines 311-329 with needs_refresh = true, up to the refresh call.
RefreshBranch(d) ==
  IF session_type = "bearer" \/ d.refresh_token = NULL
  THEN Finish(invalidate(d, now))
  ELSE Await("refresh", d)

\* Variant of the session_state case that introspects before it looks at
\* needs_refresh; C24 fails on it.
SessionStateCaseIntrospectFirst(d) == Await("introspect", d)

\* update() lines 299-309, up to the introspection call.
SessionStateCase(d) ==
  IF is_refresh_elapsed(d, session_type, now) \/ ~active(d)
  THEN RefreshBranch(d)
  ELSE Await("introspect", d)

\* Variant of update that ignores force; C33 fails on it.
UpdateStartIgnoringForce(f) ==
  /\ Begin("update", f)
  /\ calls' = <<>>
  /\ IF ~is_valid_session(data, session_type)
        \/ ~needs_update(data, session_type, now)
     THEN /\ ret' = "false"
          /\ saves' = 0
          /\ t1' = now
          /\ UNCHANGED <<data, stored, cache, alias, pc>>
     ELSE CASE session_type = "bearer" -> Await("bearer_introspect", data)
            [] session_type = "session_state" -> SessionStateCase(data)
            [] OTHER -> Finish(data)
  /\ UNCHANGED <<now, Config, session_type>>

\* update(force) up to its first provider call.
UpdateStart(f) ==
  /\ Begin("update", f)
  /\ calls' = <<>>
  /\ IF ~is_valid_session(data, session_type)
        \/ (~f /\ ~needs_update(data, session_type, now))
     THEN /\ ret' = "false"
          /\ saves' = 0
          /\ t1' = now
          /\ UNCHANGED <<data, stored, cache, alias, pc>>
     ELSE CASE session_type = "bearer" -> Await("bearer_introspect", data)
            [] session_type = "session_state" -> SessionStateCase(data)
            [] OTHER -> Finish(data)
  /\ UNCHANGED <<now, Config, session_type>>

Running == <<now, Config, session_type, op, force, pre, t0, prev>>

\* update() is left by an error thrown out of a provider call.
Throw ==
  /\ Mutate(data)
  /\ pc' = "idle"
  /\ ret' = "throw"
  /\ saves' = 0
  /\ t1' = now

\* update() lines 293-294, the bearer case: the introspection returns, an
\* inactive session is invalidated, and control falls through into the
\* session_state case.
BearerIntrospect(o) ==
  /\ pc = "bearer_introspect"
  /\ calls' = introspect_calls(data, o)
  /\ LET d1 == update_token_info(data, o, now)
         d2 == IF ~active(d1) THEN invalidate(d1, now) ELSE d1
     IN IF update_token_info_result(o, FALSE) = "throw"
        THEN Throw
        ELSE SessionStateCase(d2)
  /\ UNCHANGED Running

\* update() lines 302-309: the introspection of the session_state case
\* returns.
Introspect(o) ==
  /\ pc = "introspect"
  /\ calls' = introspect_calls(data, o)
  /\ LET d1 == update_token_info(data, o, now)
         r == update_token_info_result(o, FALSE)
     IN CASE r = "throw" -> Throw
          [] r = "false" -> RefreshBranch(d1)
          [] OTHER -> IF ~active(d1) THEN RefreshBranch(d1) ELSE Finish(d1)
  /\ UNCHANGED Running

\* Variant of refresh that rethrows whatever throw_errors says; C4 fails on
\* it.
refresh_result_rethrowing(o, throw_errors) ==
  IF o = Failed THEN "throw" ELSE "true"

\* Variant of refresh that reports a failure whatever the call returned; C19
\* fails on it.
refresh_result_always_false(o, throw_errors) == "false"

\* refresh(save = false, throw_errors): its result once the call returned.
refresh_result(o, throw_errors) ==
  IF o = Failed
  THEN (IF throw_errors THEN "throw" ELSE "false")
  ELSE "true"

\* update() lines 314-320: the refresh token exchange returns.
Refresh(o) ==
  /\ pc = "refresh"
  /\ calls' = Append(calls, Call("refresh", data.refresh_token,
                                 IF o = Failed THEN "fail" ELSE o.access_token,
                                 IF o = Failed THEN NULL ELSE o.refresh_token))
  /\ LET r == refresh_result(o, FALSE)
     IN CASE r = "throw" -> Throw
          [] r = "false" -> Finish(invalidate(data, now))
          [] OTHER ->
               Await("post_introspect", update_session_data(data, o, now))
  /\ UNCHANGED Running

\* update() lines 324-328: the introspection after the refresh returns; its
\* failure is only logged.
PostIntrospect(o) ==
  /\ pc = "post_introspect"
  /\ calls' = introspect_calls(data, o)
  /\ IF update_token_info_result(o, FALSE) = "throw"
     THEN Throw
     ELSE Finish(update_token_info(data, o, now))
  /\ UNCHANGED Running

Next ==
  \/ Tick
  \/ Load
  \/ \E resp \in TokenResponses : ExchangeCode(resp)
  \/ SaveCall
  \/ Clear
  \/ CacheEvict
  \/ \E f \in BOOLEAN : UpdateStart(f)
  \/ \E o \in IntrospectOutcomes : BearerIntrospect(o)
  \/ \E o \in IntrospectOutcomes : Introspect(o)
  \/ \E o \in RefreshOutcomes : Refresh(o)
  \/ \E o \in IntrospectOutcomes : PostIntrospect(o)

Spec == Init /\ [][Next]_vars

(* ------------------------------------------------ two concurrent requests *)

\* The session data a code exchange stored some time ago: its refresh is due
\* at once, or it is not yet.
LoginAges == {0, RefreshInterval}

StoredSessions ==
  {update_session_data(EmptyData, Resp("A1", "R1", "I1", "S1"), StartTime - a) :
     a \in LoginAges}

\* The token responses the provider gives to the two requests.
ConcurrentOutcomes ==
  {Failed, Resp("A2", "R2", NULL, NULL), Resp("A3", NULL, NULL, NULL)}

InitConc ==
  /\ now = StartTime
  /\ introspect_url \in BOOLEAN
  /\ has_session = TRUE
  /\ bearer_token = NULL
  /\ InitSession
  /\ InitNaming
  /\ InitServing
  /\ persisted \in StoredSessions
  /\ reqs = [i \in Requests |-> NewRequest]

ConcFrame ==
  <<now, introspect_url, has_session, bearer_token, session_type, data,
    stored, cache, alias, pc, op, force, ret, pre, t0, calls, saves, t1, prev,
    Naming, Serving>>

\* update() lines 311-320 with needs_refresh = true, for a session_state
\* session: where the request stands next, and its data.
refresh_step(d, t) ==
  IF d.refresh_token = NULL
  THEN [pc |-> "saved", data |-> invalidate(d, t)]
  ELSE [pc |-> "refresh", data |-> d]

\* update() lines 299-309, up to the introspection call.
session_state_step(d, t) ==
  IF is_refresh_elapsed(d, "session_state", t) \/ ~active(d)
  THEN refresh_step(d, t)
  ELSE [pc |-> "introspect", data |-> d]

\* The request goes on from step st.
Proceed(i, st) ==
  reqs' = [reqs EXCEPT ![i].pc = st.pc, ![i].data = st.data]

\* load() from the request's session object, decoded from what the store
\* holds when the request arrives.
ConcLoad(i) ==
  /\ reqs[i].pc = "new"
  /\ LET d == load_data_from_session(TRUE, persisted)
     IN reqs' = [reqs EXCEPT ![i].pc = "loaded", ![i].data = d,
                              ![i].loaded = d]
  /\ UNCHANGED <<ConcFrame, persisted>>

\* update() up to its first provider call.
ConcUpdateStart(i) ==
  /\ reqs[i].pc = "loaded"
  /\ LET d == reqs[i].data
     IN IF ~is_valid_session(d, "session_state")
           \/ ~needs_update(d, "session_state", now)
        THEN reqs' = [reqs EXCEPT ![i].pc = "returned"]
        ELSE LET st == session_state_step(d, now)
             IN reqs' = [reqs EXCEPT
                           ![i].pc = st.pc,
                           ![i].data = st.data,
                           ![i].due = is_refresh_elapsed(d, "session_state", now)]
  /\ UNCHANGED <<ConcFrame, persisted>>

\* update() lines 302-309: the introspection returns.
ConcIntrospect(i, o) ==
  /\ reqs[i].pc = "introspect"
  /\ LET d1 == update_token_info(reqs[i].data, o, now)
         r == update_token_info_result(o, FALSE)
     IN CASE r = "throw" -> Proceed(i, [pc |-> "threw", data |-> d1])
          [] r = "false" -> Proceed(i, refresh_step(d1, now))
          [] OTHER -> IF ~active(d1)
                      THEN Proceed(i, refresh_step(d1, now))
                      ELSE Proceed(i, [pc |-> "saved", data |-> d1])
  /\ UNCHANGED <<ConcFrame, persisted>>

\* update() lines 314-320: the refresh token exchange returns.
ConcRefresh(i, o) ==
  /\ reqs[i].pc = "refresh"
  /\ LET d == reqs[i].data
         r == refresh_result(o, FALSE)
         st == CASE r = "throw" -> [pc |-> "threw", data |-> d]
                 [] r = "false" -> [pc |-> "saved", data |-> invalidate(d, now)]
                 [] OTHER -> [pc |-> "post_introspect",
                              data |-> update_session_data(d, o, now)]
     IN reqs' = [reqs EXCEPT ![i].pc = st.pc, ![i].data = st.data,
                              ![i].resp = o]
  /\ UNCHANGED <<ConcFrame, persisted>>

\* update() lines 324-334: the introspection after the refresh returns, and
\* save() puts this.data under the session key of the request's session
\* object.
ConcPostIntrospect(i, o) ==
  /\ reqs[i].pc = "post_introspect"
  /\ LET d1 == update_token_info(reqs[i].data, o, now)
     IN IF update_token_info_result(o, FALSE) = "throw"
        THEN Proceed(i, [pc |-> "threw", data |-> d1])
        ELSE Proceed(i, [pc |-> "saved", data |-> d1])
  /\ UNCHANGED <<ConcFrame, persisted>>

\* The response is sent: the session middleware persists the request's
\* session object when save() wrote it.
ConcRespond(i) ==
  /\ reqs[i].pc \in {"saved", "returned", "threw"}
  /\ persisted' = IF reqs[i].pc = "saved" THEN reqs[i].data ELSE persisted
  /\ reqs' = [reqs EXCEPT ![i].pc = "responded"]
  /\ UNCHANGED ConcFrame

NextConc ==
  \/ Tick
  \/ \E i \in Requests : ConcLoad(i)
  \/ \E i \in Requests : ConcUpdateStart(i)
  \/ \E i \in Requests, o \in IntrospectOutcomes : ConcIntrospect(i, o)
  \/ \E i \in Requests, o \in ConcurrentOutcomes : ConcRefresh(i, o)
  \/ \E i \in Requests, o \in IntrospectOutcomes : ConcPostIntrospect(i, o)
  \/ \E i \in Requests : ConcRespond(i)

SpecConc == InitConc /\ [][NextConc]_vars

(* -------------------------------------------------------------- username *)

ClaimValues == {NULL, "", "alice", "bob"}

\* The token_info objects an introspection returns.
TokenInfoObjects ==
  [sub : ClaimValues, name : ClaimValues, _username : {NULL}]

PathLists == {<<>>, <<"name">>, <<"name", "sub">>, <<"sub", "name">>}

\* common.value_from_object_path(token_info, path).
value_from_object_path(ti, p) == ti[p]

NonNull(v) == v # NULL

\* Variant of the username computation that reads the first path only; C20
\* fails on it.
username_value_first_path_only(ti, ps) ==
  IF ps # <<>> /\ Truthy(value_from_object_path(ti, ps[1]))
  THEN value_from_object_path(ti, ps[1])
  ELSE "Anonymous"

\* username, lines 143-145: the first non-null value among the paths, or
\* 'Anonymous' when there is none or it is falsy.
username_value(ti, ps) ==
  LET vs == SelectSeq([k \in 1..Len(ps) |-> value_from_object_path(ti, ps[k])],
                      NonNull)
  IN IF vs # <<>> /\ Truthy(vs[1]) THEN vs[1] ELSE "Anonymous"

\* username: token_info after the getter ran.
username_cached(ti, ps) ==
  IF ti = NoInfo THEN ti
  ELSE IF ti._username = NULL
       THEN [ti EXCEPT !._username = username_value(ti, ps)]
       ELSE ti

\* username: what the getter returns.
username(ti, ps) ==
  IF ti = NoInfo THEN "Anonymous" ELSE username_cached(ti, ps)._username

InitUser ==
  /\ now = StartTime
  /\ introspect_url = TRUE
  /\ has_session = TRUE
  /\ bearer_token = NULL
  /\ InitSession
  /\ InitConcurrent
  /\ InitServing
  /\ info \in {NoInfo} \cup TokenInfoObjects
  /\ paths \in PathLists
  /\ uop = "new"
  /\ uname = "<none>"
  /\ ufirst = "<none>"
  /\ usame = "<none>"

UserFrame ==
  <<now, introspect_url, has_session, bearer_token, session_type, data,
    stored, cache, alias, pc, op, force, ret, pre, t0, calls, saves, t1, prev,
    Concurrent, paths, Serving>>

\* session.username is read.
ReadUsername ==
  /\ info' = username_cached(info, paths)
  /\ uname' = username(info, paths)
  /\ ufirst' = IF ufirst = "<none>" THEN username(info, paths) ELSE ufirst
  /\ usame' = IF usame = "<none>" THEN username(info, paths) ELSE usame
  /\ uop' = "read"
  /\ UNCHANGED UserFrame

\* update_token_info: update_session_data({token_info}) puts the object the
\* introspection returned in place of the old one.
NewTokenInfo(ti) ==
  /\ info' = ti
  /\ usame' = "<none>"
  /\ uop' = "introspect"
  /\ UNCHANGED <<UserFrame, uname, ufirst>>

\* clear(): this._data = {}.
ClearTokenInfo ==
  /\ info # NoInfo
  /\ info' = NoInfo
  /\ usame' = "<none>"
  /\ uop' = "clear"
  /\ UNCHANGED <<UserFrame, uname, ufirst>>

NextUser ==
  \/ ReadUsername
  \/ \E ti \in TokenInfoObjects : NewTokenInfo(ti)
  \/ ClearTokenInfo

SpecUser == InitUser /\ [][NextUser]_vars

(* ---------------------------------------------------- request middleware *)
(* One request passing through the intercept function of                   *)
(* Stratis._middleware, await by await. The middleware options are fixed   *)
(* when the middleware is built; what the request asks for, what           *)
(* stratis_request.initialize() resolves and what the callbacks do are     *)
(* inputs.                                                                 *)

\* One session instance, untouched by the other views.
Session ==
  <<now, introspect_url, has_session, bearer_token, session_type, data,
    stored, cache, alias, pc, op, force, ret, pre, t0, calls, saves, t1, prev,
    Concurrent, Naming>>

InitMw ==
  /\ now = StartTime
  /\ introspect_url = TRUE
  /\ has_session = TRUE
  /\ bearer_token = NULL
  /\ InitSession
  /\ InitConcurrent
  /\ InitNaming
  /\ \E f, a, np, nf, ie \in BOOLEAN :
       mw = [IdleMw EXCEPT !.has_filter = f, !.has_authenticate = a,
                           !.next_on_private = np, !.next_on_not_found = nf,
                           !.ignore_empty_path = ie]
  /\ rq = IdleRq
  /\ ws = IdleWs

MwFrame == <<Session, rq, ws>>

\* The steps of intercept that wait for something.
MwSteps == {"initialize", "authenticate", "permit", "serve"}

\* intercept goes on to the given step, or the request ends with the given
\* result.
MwGoto(m, r) ==
  IF r \in MwSteps THEN [m EXCEPT !.pc = r]
  ELSE [m EXCEPT !.pc = "done", !.result = r]

\* intercept up to initialize(): the empty path and the filter. f is what
\* the filter does: "passes", "calls_next" or "throws".
before_initialize(root, ignore_empty_path, has_filter, f) ==
  IF ignore_empty_path /\ root THEN "next"
  ELSE IF has_filter /\ f = "calls_next" THEN "filtered"
  ELSE IF has_filter /\ f = "throws" THEN "error"
  ELSE "initialize"

after_initialize_without_private_test(exists, mode, on_not_found, on_private, has_auth) ==
  IF ~exists THEN (IF on_not_found THEN "next" ELSE "not_found")
  ELSE IF has_auth THEN "authenticate"
  ELSE "serve"

\* intercept after initialize(): the file that does not exist, the private
\* file, and whether there is an authenticate callback to call.
after_initialize(exists, mode, on_not_found, on_private, has_auth) ==
  IF ~exists THEN (IF on_not_found THEN "next" ELSE "not_found")
  ELSE IF mode = "private" THEN (IF on_private THEN "next" ELSE "forbidden")
  ELSE IF has_auth THEN "authenticate"
  ELSE "serve"

after_authenticate_ignoring_next_error(o, mode) ==
  IF o.threw THEN "error"
  ELSE IF o.ended THEN "ended"
  ELSE IF mode = "secure" THEN "permit"
  ELSE "serve"

\* intercept after authenticate(): sf_next keeps its first argument only
\* when that is an Error.
after_authenticate(o, mode) ==
  IF o.threw THEN "error"
  ELSE IF o.next_arg = "Error" THEN "error"
  ELSE IF o.ended THEN "ended"
  ELSE IF mode = "secure" THEN "permit"
  ELSE "serve"

\* intercept after is_permitted().
after_permit(p) ==
  IF p = "throw" THEN "error"
  ELSE IF p = "false" THEN "not_authorized"
  ELSE "serve"

\* What serves the request: res.sendFile, handle_websocket_request or
\* handle_page_request.
handler(kind) == IF kind \in {"file", "codefile"} THEN "file" ELSE kind

\* A request arrives: intercept runs up to the await of initialize().
MwIntercept ==
  /\ mw.pc = "idle"
  /\ \E root \in BOOLEAN, f \in {"passes", "calls_next", "throws"} :
       mw' = MwGoto([mw EXCEPT !.root = root],
                    before_initialize(root, mw.ignore_empty_path,
                                      mw.has_filter, f))
  /\ UNCHANGED <<MwFrame>>

\* initialize() has resolved the path.
MwInitialize ==
  /\ mw.pc = "initialize"
  /\ \E exists \in BOOLEAN, mode \in AccessModes, kind \in FileKinds :
       mw' = MwGoto([mw EXCEPT !.exists = exists, !.mode = mode,
                               !.kind = kind],
                    after_initialize(exists, mode, mw.next_on_not_found,
                                     mw.next_on_private,
                                     mw.has_authenticate))
  /\ UNCHANGED <<MwFrame>>

\* The authenticate callback has returned or thrown.
MwAuthenticate ==
  /\ mw.pc = "authenticate"
  /\ \E o \in AuthOutcomes :
       mw' = MwGoto([mw EXCEPT !.auth_called = TRUE, !.auth = o],
                    after_authenticate(o, mw.mode))
  /\ UNCHANGED <<MwFrame>>

\* is_permitted() has returned or thrown.
MwPermit ==
  /\ mw.pc = "permit"
  /\ \E p \in {"true", "false", "throw"} :
       mw' = MwGoto([mw EXCEPT !.permitted = p], after_permit(p))
  /\ UNCHANGED <<MwFrame>>

\* The file is sent or the page / websocket handler is invoked; the handler
\* serves the request or fails (an error or the page timeout).
MwServe ==
  /\ mw.pc = "serve"
  /\ \E ok \in BOOLEAN :
       mw' = MwGoto([mw EXCEPT !.served = handler(mw.kind)],
                    IF ok THEN "served" ELSE "error")
  /\ UNCHANGED <<MwFrame>>

NextMw ==
  \/ MwIntercept
  \/ MwInitialize
  \/ MwAuthenticate
  \/ MwPermit
  \/ MwServe

SpecMw == InitMw /\ [][NextMw]_vars

(* ------------------------------------------------------- requests client *)
(* One call of StratisRequestsClient.request and the recursive calls it    *)
(* makes for redirects, against hosts whose answers are fixed (a finite    *)
(* redirect graph).                                                        *)

\* new URL(url).href: the serialisation of the URL the string names.
href(u) == Url(u.site, "href")

\* array.includes(location): the strings are compared as written.
includes(visited, location) ==
  \E i \in 1..Len(visited) : visited[i] = location

\* request() after the answer of the host at url: the result of the call,
\* or the next call ("redirect") with the visited list it is given.
after_response(url, answer, follow, visited) ==
  IF answer.status = "fail"
  THEN [result |-> "request_error", url |-> url, visited |-> visited]
  ELSE IF follow /\ answer.location # NoLocation /\ answer.status = "302"
  THEN LET pushed == Append(visited, href(url))
       IN IF includes(pushed, answer.location)
          THEN [result |-> "circular", url |-> url, visited |-> pushed]
          ELSE IF answer.location.form = "relative"
          THEN [result |-> "invalid_url", url |-> answer.location,
                visited |-> pushed]
          ELSE [result |-> "redirect", url |-> answer.location,
                visited |-> pushed]
  ELSE [result |-> "response", url |-> url, visited |-> visited]

InitRq ==
  /\ now = StartTime
  /\ introspect_url = TRUE
  /\ has_session = TRUE
  /\ bearer_token = NULL
  /\ InitSession
  /\ InitConcurrent
  /\ InitNaming
  /\ mw = IdleMw
  /\ \E g \in [Sites -> Answers], f \in BOOLEAN :
       rq = [IdleRq EXCEPT !.graph = g, !.follow = f]
  /\ ws = IdleWs

RqFrame == <<Session, mw, ws>>

\* request(url, options) is called.
RqRequest ==
  /\ rq.pc = "idle"
  /\ \E u \in StartUrls : rq' = [rq EXCEPT !.pc = "requesting", !.url = u]
  /\ UNCHANGED <<RqFrame>>

\* The request to the current URL is sent and its answer handled: the call
\* returns the response, throws, or calls request() with the location.
RqSend ==
  /\ rq.pc = "requesting"
  /\ Len(rq.requested) < MaxChain
  /\ LET r == after_response(rq.url, rq.graph[rq.url.site], rq.follow,
                             rq.visited)
     IN rq' = [rq EXCEPT
                 !.requested = Append(@, href(rq.url)),
                 !.visited = r.visited,
                 !.url = r.url,
                 !.result = IF r.result = "redirect" THEN "none" ELSE r.result,
                 !.pc = IF r.result = "redirect" THEN "requesting"
                        ELSE IF r.result = "response" THEN "returned"
                        ELSE "threw"]
  /\ UNCHANGED <<RqFrame>>

NextRq ==
  \/ RqRequest
  \/ RqSend

SpecRq == InitRq /\ [][NextRq]_vars

(* ------------------------------------------------------ websocket client *)
(* The browser's StratisClient: its websocket, the api_call invocations of *)
(* the page, the messages of the server and the timers of the calls.       *)

\* resolve or reject of the call's promise is called: the first call
\* settles the promise, later ones change nothing.
settle(call, by) ==
  IF call.state = "settled" THEN [call EXCEPT !.settles = @ + 1]
  ELSE [call EXCEPT !.state = "settled", !.by = by, !.settles = @ + 1]

\* cleanup() of api_call: the listener is removed and the timer cleared.
cleanup(call) == [call EXCEPT !.listener = FALSE, !.timer = FALSE]

\* response_listenter of the call with the given rid, for an event.
response_listener(call, rid, ev_rid, ev_error) ==
  IF ev_rid = rid
  THEN settle(cleanup(call), IF ev_error THEN "error" ELSE "response")
  ELSE call

\* api_call: wait_for_websocket_ready() returns at once on an open socket
\* and the request is sent, the timer set and the listener added.
\* Otherwise it waits in a promise whose executor names
\* _stratis__websocket, which nothing declares: the executor throws a
\* ReferenceError and the call is rejected before anything is sent.
api_call(call, socket) ==
  IF socket = "open"
  THEN [call EXCEPT !.state = "pending", !.listener = TRUE, !.timer = TRUE]
  ELSE settle(call, "reference_error")

InitWs ==
  /\ now = StartTime
  /\ introspect_url = TRUE
  /\ has_session = TRUE
  /\ bearer_token = NULL
  /\ InitSession
  /\ InitConcurrent
  /\ InitNaming
  /\ mw = IdleMw
  /\ rq = IdleRq
  /\ ws = IdleWs

WsFrame == <<Session, mw, rq>>

\* The websocket created by the constructor opens.
WsOpen ==
  /\ ws.socket = "connecting"
  /\ ws' = [ws EXCEPT !.socket = "open"]
  /\ UNCHANGED <<WsFrame>>

\* The page calls an api method.
WsApiCall(c) ==
  /\ ws.calls[c].state = "new"
  /\ ws' = [ws EXCEPT !.calls[c] = api_call(@, ws.socket)]
  /\ UNCHANGED <<WsFrame>>

\* A message of the server arrives: process_websocket_message dispatches
\* the api event to every listener registered.
WsMessage(rid, error) ==
  /\ ws.socket = "open"
  /\ ws' = [ws EXCEPT !.calls =
              [c \in Calls |->
                 IF ws.calls[c].listener
                 THEN response_listener(ws.calls[c], c, rid, error)
                 ELSE ws.calls[c]]]
  /\ UNCHANGED <<WsFrame>>

\* The timer of a call fires.
WsTimeout(c) ==
  /\ ws.calls[c].timer
  /\ ws' = [ws EXCEPT !.calls[c] = settle(cleanup(@), "timeout")]
  /\ UNCHANGED <<WsFrame>>

NextWs ==
  \/ WsOpen
  \/ \E c \in Calls : WsApiCall(c)
  \/ \E rid \in Rids, error \in BOOLEAN : WsMessage(rid, error)
  \/ \E c \in Calls : WsTimeout(c)

SpecWs == InitWs /\ [][NextWs]_vars

(* ---------------------------------------------------------------- claims *)

\* update() has returned.
UpdateDone == op = "update" /\ pc = "idle"

\* A provider call of the given kind and outcome is in the log.
Called(kind, out) ==
  \E i \in 1..Len(calls) : calls[i].kind = kind /\ calls[i].out = out

CalledKind(kind) == \E i \in 1..Len(calls) : calls[i].kind = kind

\* C1: a session without access_token is not a valid session, and update()
\* (forced or not) on it returns false at once: no provider call, no
\* save(), the session data as it was.
C1_NullTokenNoOp ==
  /\ data.access_token = NULL => ~is_valid_session(data, session_type)
  /\ (op = "update" /\ pre.access_token = NULL) =>
       /\ pc = "idle"
       /\ ret = "false"
       /\ calls = <<>>
       /\ saves = 0
       /\ data = pre

C1_Witness ==
  /\ UpdateDone
  /\ force
  /\ session_type = "session_state"
  /\ pre.access_token = NULL
  /\ pre.refresh_token # NULL
  /\ ret = "false"

\* C2 as claimed: whenever a non-null access_token is written (a token
\* response applied by update_session_data, a bearer token loaded over the
\* cached data), invalidated is unset afterwards.
C2_WriteClearsInvalidated ==
  /\ (op = "exchange" /\ calls[1].out # NULL) => data.invalidated = NoTs
  /\ (pc = "post_introspect" /\ calls[Len(calls)].out # NULL) =>
       data.invalidated = NoTs
  /\ (op = "load" /\ session_type = "bearer") => data.invalidated = NoTs

\* C2 amended: a token response with a non-empty access_token applied by
\* update_session_data leaves invalidated unset; a bearer token loaded over
\* the cached data keeps the invalidated stamp of the cache entry.
C2_TruthyWriteClearsInvalidated ==
  /\ (op = "exchange" /\ Truthy(calls[1].out)) => data.invalidated = NoTs
  /\ (pc = "post_introspect" /\ Truthy(calls[Len(calls)].out)) =>
       data.invalidated = NoTs
  /\ (op = "load" /\ session_type = "bearer" /\ cache # NoData) =>
       data.invalidated = cache.invalidated

C2_Witness ==
  /\ op = "exchange"
  /\ Truthy(calls[1].out)
  /\ pre.invalidated # NoTs
  /\ data.invalidated = NoTs

\* The states of the session as the specification derives them.
NeedsRecheck == now - updated(data) >= RecheckInterval

NeedsRefresh ==
  /\ data.refresh_token # NULL
  /\ session_type # "bearer"
  /\ now - refreshed(data) >= RefreshInterval

TokenReportedActive == data.token_info = "active" \/ ~introspect_url

\* C3 as claimed: is_authenticated() only if the session is Active, which
\* includes that invalidated is unset.
C3_AuthenticatedIsActive ==
  is_authenticated(data, session_type, now) =>
    /\ data.access_token # NULL
    /\ data.invalidated = NoTs
    /\ TokenReportedActive
    /\ ~NeedsRecheck
    /\ ~NeedsRefresh

\* C3 amended: is_authenticated() only if access_token is present, the
\* token is reported active, neither interval has elapsed and, for a
\* session_state session, invalidated is unset (a bearer session is
\* authenticated whatever its invalidated stamp).
C3_AuthenticatedIsActiveBySource ==
  is_authenticated(data, session_type, now) =>
    /\ data.access_token # NULL
    /\ session_type # "bearer" => data.invalidated = NoTs
    /\ TokenReportedActive
    /\ ~NeedsRecheck
    /\ ~NeedsRefresh

C3_Witness ==
  /\ UpdateDone
  /\ session_type = "session_state"
  /\ introspect_url
  /\ CalledKind("refresh")
  /\ is_authenticated(data, session_type, now)

\* C4: update() on a loaded session returns true or false, whatever the
\* provider calls did.
C4_UpdateNeverThrows ==
  (UpdateDone /\ session_type \in {"bearer", "session_state"}) =>
    ret \in {"true", "false"}

C4_Witness ==
  /\ UpdateDone
  /\ Called("introspect", "fail")
  /\ Called("refresh", "fail")
  /\ ret = "true"

\* C5: when the refresh call of update() on a session_state session whose
\* refresh interval has elapsed fails, update() returns (true) with
\* invalidated stamped and the session is not authenticated.
C5_RefreshFailureInvalidates ==
  ( /\ UpdateDone
    /\ session_type = "session_state"
    /\ pre.refresh_token # NULL
    /\ t0 - refreshed(pre) >= RefreshInterval
    /\ Called("refresh", "fail") ) =>
      /\ ret = "true"
      /\ data.invalidated # NoTs
      /\ ~is_authenticated(data, session_type, now)

C5_Witness ==
  /\ UpdateDone
  /\ session_type = "session_state"
  /\ pre.refresh_token # NULL
  /\ t0 - refreshed(pre) >= RefreshInterval
  /\ Called("refresh", "fail")
  /\ data.invalidated = t1

\* update() on a session_state session stamped invalidated.
UpdateInvalidated ==
  /\ UpdateDone
  /\ session_type = "session_state"
  /\ pre.invalidated = NoTs
  /\ data.invalidated # NoTs

\* C6 as claimed: update() on a session_state session sets invalidated only
\* if a refresh token exchange was issued to the provider and failed.
C6_InvalidatedOnlyByFailedExchange ==
  UpdateInvalidated => Called("refresh", "fail")

\* C6 amended: update() on a session_state session sets invalidated only if
\* refresh() did not succeed: the exchange was issued and failed, or the
\* session holds no refresh_token and no exchange was issued.
C6_InvalidatedOnlyByFailedRefresh ==
  UpdateInvalidated =>
    \/ Called("refresh", "fail")
    \/ pre.refresh_token = NULL /\ ~CalledKind("refresh")

C6_Witness ==
  /\ UpdateInvalidated
  /\ Called("introspect", "fail")
  /\ Called("refresh", "fail")

\* C7: update() on a bearer session issues no refresh token exchange and
\* leaves refresh_token and refreshed as they were.
C7_BearerNeverRefreshes ==
  (op = "update" /\ session_type = "bearer") =>
    /\ pc \notin {"refresh", "post_introspect"}
    /\ ~CalledKind("refresh")
    /\ data.refresh_token = pre.refresh_token
    /\ data.refreshed = pre.refreshed

C7_Witness ==
  /\ UpdateDone
  /\ session_type = "bearer"
  /\ Called("introspect", "active")
  /\ Called("introspect", "fail")
  /\ ret = "true"

\* C8: when an introspection of update() on a bearer session reports the
\* token inactive, invalidated is stamped and the session is not
\* authenticated.
C8_BearerInactiveInvalidates ==
  (UpdateDone /\ session_type = "bearer" /\ Called("introspect", "inactive")) =>
    /\ data.invalidated # NoTs
    /\ ~is_authenticated(data, session_type, now)

C8_Witness ==
  /\ UpdateDone
  /\ session_type = "bearer"
  /\ pre.invalidated = NoTs
  /\ Called("introspect", "inactive")
  /\ data.invalidated = t1

\* The unforced update() started the instant an unforced update() returned.
SecondUpdate ==
  op = "update" /\ ~force /\ prev \in {"update_noop", "update_clean", "update_other"}

UpdateNoOp == pc = "idle" /\ ret = "false" /\ calls = <<>> /\ saves = 0

\* C9 as claimed: of two unforced update() calls in immediate succession the
\* second returns false and issues no provider call.
C9_SecondUpdateIsNoOp == SecondUpdate => UpdateNoOp

\* C9 amended: the second call returns false and issues no provider call
\* when the first returned false, or when the first made provider calls
\* that all succeeded, reported the token active and (for a refresh)
\* returned a new refresh_token, with no time elapsed since it started.
C9_SecondUpdateAfterCleanIsNoOp ==
  (op = "update" /\ ~force /\ prev \in {"update_noop", "update_clean"}) =>
    UpdateNoOp

C9_Witness ==
  /\ op = "update"
  /\ ~force
  /\ prev = "update_clean"
  /\ session_type = "session_state"
  /\ data.refreshed = now
  /\ UpdateNoOp

\* C10: load() right after a save() that returned true, from the store that
\* save() wrote, yields the saved session data, less id_token for a bearer
\* session.
C10_SaveLoadRoundTrip ==
  (op = "load" /\ prev = "saved") =>
    data = IF session_type = "bearer"
           THEN [pre EXCEPT !.id_token = NULL]
           ELSE pre

C10_Witness ==
  /\ op = "load"
  /\ prev = "saved"
  /\ data.access_token # NULL
  /\ data.token_info # NULL
  /\ data.updated # NoTs

\* C11: after clear() the stored state is empty: a load() from the same
\* store that follows a clear() yields none of the fields stored before, on
\* either source (a bearer load carries the presented token and nothing
\* else).
C11_ClearEmptiesStore ==
  (op = "load" /\ prev = "cleared") =>
    /\ session_type = "session_state" => data = EmptyData
    /\ session_type = "bearer" =>
         data = [EmptyData EXCEPT !.access_token = bearer_token]

\* The refresh of this update() succeeded with the given access_token and
\* no refresh_token.
RefreshedWithoutToken(a) ==
  \E i \in 1..Len(calls) :
    /\ calls[i].kind = "refresh"
    /\ calls[i].out = a
    /\ calls[i].rt = NULL

\* C12: when the refresh of a session_state session is due and the refresh
\* call returns a new access_token without a refresh_token, update() leaves
\* the new access_token, the old refresh_token, the old refreshed stamp and
\* no invalidated stamp.
C12_RefreshWithoutRefreshToken ==
  \A a \in {"A2", ""} :
    (/\ UpdateDone
     /\ session_type = "session_state"
     /\ is_refresh_elapsed(pre, session_type, t0)
     /\ RefreshedWithoutToken(a)) =>
      /\ data.access_token = a
      /\ data.refresh_token = pre.refresh_token
      /\ data.refreshed = pre.refreshed
      /\ data.invalidated = NoTs

C12_Witness ==
  /\ UpdateDone
  /\ session_type = "session_state"
  /\ is_refresh_elapsed(pre, session_type, t0)
  /\ RefreshedWithoutToken("A2")
  /\ pre.access_token = "A1"
  /\ pre.refreshed # NoTs
  /\ data.refresh_token = "R1"

\* C13: without an introspection endpoint, a session with an access_token,
\* not invalidated and with no refresh due is authenticated right after
\* update(), however old its updated stamp is.
C13_NoEndpointAuthenticated ==
  (/\ UpdateDone
   /\ ~introspect_url
   /\ session_type # "none"
   /\ t0 = now
   /\ pre.access_token # NULL
   /\ pre.invalidated = NoTs
   /\ ~is_refresh_elapsed(pre, session_type, t0)) =>
    is_authenticated(data, session_type, now)

\* C14: the source tag of a loaded session is bearer exactly when a bearer
\* token was presented, and no operation writes the store of the other
\* source.
C14_SourceFixedByLoad ==
  session_type # "none" =>
    /\ session_type = "bearer" <=> bearer_token # NULL
    /\ session_type = "session_state" <=> bearer_token = NULL
    /\ session_type = "bearer" => stored = NoData
    /\ session_type = "session_state" => cache = NoData

C14_Witness ==
  /\ UpdateDone
  /\ session_type = "bearer"
  /\ ret = "true"
  /\ saves = 1
  /\ cache = data
  /\ stored = NoData

\* C15: on a session_state session whose request has no session object,
\* save() returns false without throwing and writes nothing, and the session
\* load() returns from that request is not authenticated.
C15_NoSessionObject ==
  (session_type = "session_state" /\ ~has_session) =>
    /\ stored = NoData
    /\ cache = NoData
    /\ op \in {"save", "clear"} => ret = "false"
    /\ op = "load" => ~is_authenticated(data, session_type, now)

C15_Witness ==
  /\ session_type = "session_state"
  /\ ~has_session
  /\ op = "save"
  /\ ret = "false"
  /\ data.access_token = "A1"
  /\ stored = NoData

\* save() and clear() on an instance whose source tag is neither bearer nor
\* session_state throw, and nothing is written to either store.
UnknownSourceSaveThrows ==
  session_type = "none" =>
    /\ stored = NoData
    /\ cache = NoData
    /\ op \in {"save", "clear"} => ret = "throw"

\* C16 as stated: save() and clear() on an instance with an unknown source
\* tag throw and write nothing, and so does every update() on such an
\* instance with a non-null access_token.
C16_UnknownSourceAlwaysThrows ==
  /\ UnknownSourceSaveThrows
  /\ (session_type = "none" /\ UpdateDone /\ pre.access_token # NULL) =>
       ret = "throw"

\* C16: save() and clear() on an instance with an unknown source tag throw
\* and write nothing, and so does an update() on such an instance that gets
\* past its guards (valid session, forced or update needed).
C16_UnknownSourceThrows ==
  /\ UnknownSourceSaveThrows
  /\ (/\ session_type = "none"
      /\ UpdateDone
      /\ is_valid_session(pre, session_type)
      /\ force \/ needs_update(pre, session_type, t0)) =>
       ret = "throw"

C16_Witness ==
  /\ session_type = "none"
  /\ UpdateDone
  /\ pre.access_token = "A1"
  /\ ret = "throw"
  /\ stored = NoData
  /\ cache = NoData

\* C17: an update() on a loaded session that gets past its two guards calls
\* save() exactly once, after its provider calls, and returns true, whatever
\* those calls returned.
C17_PastGuardsSavesOnce ==
  (/\ UpdateDone
   /\ session_type # "none"
   /\ is_valid_session(pre, session_type)
   /\ force \/ needs_update(pre, session_type, t0)) =>
    /\ ret = "true"
    /\ saves = 1

C17_Witness ==
  /\ UpdateDone
  /\ session_type = "bearer"
  /\ Called("introspect", "fail")
  /\ ret = "true"
  /\ saves = 1

\* A token response with a non-null refresh_token was applied by the
\* operation.
AppliedRefreshToken ==
  \E i \in 1..Len(calls) :
    /\ calls[i].kind \in {"refresh", "exchange"}
    /\ calls[i].out # "fail"
    /\ calls[i].rt # NULL

\* C18: the refreshed stamp of the instance changes only when a token
\* response with a non-null refresh_token is applied; an introspection
\* result, a token response without refresh_token, invalidate(), save() and
\* failed provider calls leave it as it was.
C18_RefreshedOnlyWithRefreshToken ==
  (op \in {"update", "exchange", "save"} /\ data.refreshed # pre.refreshed) =>
    AppliedRefreshToken

C18_Witness ==
  /\ UpdateDone
  /\ AppliedRefreshToken
  /\ Called("introspect", "inactive")
  /\ pre.refreshed # NoTs
  /\ data.refreshed # pre.refreshed
  /\ data.refreshed = now

\* Both requests have responded, each after an update() that found the
\* refresh due and whose refresh call succeeded.
BothRefreshed ==
  \A i \in Requests :
    /\ reqs[i].pc = "responded"
    /\ reqs[i].due
    /\ reqs[i].resp # Failed

\* The request's data is what it loaded with the non-null entries of its
\* token response written over it.
AppliedResponse(i) ==
  \A f \in Fields \ {"token_info"} :
    reqs[i].data[f] =
      IF reqs[i].resp[f] # NULL THEN reqs[i].resp[f] ELSE reqs[i].loaded[f]

\* C19: when two concurrent requests of one stored session both run update()
\* with the refresh due and both refresh calls succeed, each applies its own
\* response, neither ends invalidated, and the store ends with the whole
\* data of one of the two.
C19_DoubleRefresh ==
  BothRefreshed =>
    /\ \A i \in Requests :
         /\ AppliedResponse(i)
         /\ reqs[i].data.invalidated = NoTs
    /\ persisted \in {reqs[i].data : i \in Requests}

C19_Witness ==
  /\ BothRefreshed
  /\ reqs[1].loaded = reqs[2].loaded
  /\ reqs[1].resp.access_token = "A2"
  /\ reqs[2].resp.access_token = "A3"
  /\ persisted = reqs[1].data
  /\ persisted # reqs[2].data

\* The value at the first path that resolves to a non-null value in the
\* token_info, "Anonymous" when token_info is absent or no path matches.
FirstNonNull(ti, ps) ==
  IF ti = NoInfo THEN "Anonymous"
  ELSE LET ks == {k \in 1..Len(ps) : ti[ps[k]] # NULL}
       IN IF ks = {} THEN "Anonymous"
          ELSE ti[ps[CHOOSE k \in ks : \A j \in ks : k <= j]]

\* C20 as stated: a read of username returns the value at the first path
\* that resolves to a non-null value in the current token_info, "Anonymous"
\* when there is none, and every read of the instance returns what its first
\* read returned.
C20_UsernameFirstNonNull ==
  uop = "read" =>
    /\ uname = FirstNonNull(info, paths)
    /\ uname = ufirst

\* C20: a read of username returns the first non-null value among the paths
\* in the current token_info when that value is not empty, "Anonymous"
\* otherwise, and every read returns what the first read of that token_info
\* returned.
C20_UsernameFirstTruthy ==
  uop = "read" =>
    /\ uname = IF Truthy(FirstNonNull(info, paths))
               THEN FirstNonNull(info, paths) ELSE "Anonymous"
    /\ uname = usame

C20_Witness ==
  /\ uop = "read"
  /\ paths = <<"name", "sub">>
  /\ info.name = NULL
  /\ info.sub = "bob"
  /\ uname = "bob"
  /\ ufirst = "alice"

\* C21: a bearer session never carries an id_token, nor does a cache entry
\* written by save(), and after load() its access_token is the bearer token
\* of the request.
C21_BearerNoIdToken ==
  session_type = "bearer" =>
    /\ data.id_token = NULL
    /\ cache # NoData => cache.id_token = NULL
    /\ op = "load" => data.access_token = bearer_token

C21_Witness ==
  /\ session_type = "bearer"
  /\ op = "load"
  /\ cache # NoData
  /\ data.token_info = "active"
  /\ data.access_token = BearerToken

\* C22: a session of either source with an access_token and no invalidated
\* stamp is a valid session, whatever its token_info and timestamps: a
\* forced update() on it gets past the first guard.
C22_ValidWithTokenNotInvalidated ==
  /\ (/\ session_type \in {"bearer", "session_state"}
      /\ data.access_token # NULL
      /\ data.invalidated = NoTs) =>
       is_valid_session(data, session_type)
  /\ (/\ UpdateDone
      /\ force
      /\ session_type \in {"bearer", "session_state"}
      /\ pre.access_token # NULL
      /\ pre.invalidated = NoTs) =>
       ret # "false"

C22_Witness ==
  /\ UpdateDone
  /\ force
  /\ session_type = "session_state"
  /\ pre.access_token # NULL
  /\ pre.invalidated = NoTs
  /\ pre.token_info = "inactive"
  /\ t0 - updated(pre) >= RecheckInterval
  /\ ret = "true"

\* A provider call that failed is issued again right after, for the same
\* token.
RetriedCall ==
  \E i \in 1..(Len(calls) - 1) :
    /\ calls[i].out = "fail"
    /\ calls[i + 1].kind = calls[i].kind
    /\ calls[i + 1].token = calls[i].token

CallCount(kind) == Cardinality({i \in 1..Len(calls) : calls[i].kind = kind})

\* C23: an update() issues at most one refresh token exchange and at most
\* two introspections, and never issues a failed call again.
C23_BoundedCallsNoRetry ==
  op = "update" =>
    /\ CallCount("refresh") <= 1
    /\ CallCount("introspect") <= 2
    /\ ~RetriedCall

\* The update() that returned ran on a session_state session and got past
\* its guards.
SessionUpdateRan ==
  /\ UpdateDone
  /\ session_type = "session_state"
  /\ ret = "true"

\* needs_refresh as update() first computes it.
RefreshDueAtStart ==
  is_refresh_elapsed(pre, session_type, t0) \/ ~active(pre)

\* C24 as stated: with the refresh due or token_info inactive no
\* introspection precedes the refresh call; otherwise one introspection
\* comes first, and a refresh call is issued after it exactly when it failed
\* or reported the token inactive.
C24_IntrospectThenRefreshCall ==
  SessionUpdateRan =>
    /\ RefreshDueAtStart => (calls = <<>> \/ calls[1].kind = "refresh")
    /\ (~RefreshDueAtStart /\ introspect_url) =>
         /\ calls # <<>>
         /\ calls[1].kind = "introspect"
         /\ Len(calls) >= 2 => calls[2].kind = "refresh"
         /\ CalledKind("refresh") <=> calls[1].out \in {"fail", "inactive"}

\* C24: with the refresh due or token_info inactive no introspection
\* precedes the refresh call; otherwise one introspection comes first when
\* there is an introspection endpoint, and a refresh call is issued after it
\* exactly when it failed or reported the token inactive and the session
\* holds a refresh_token (without one the session is invalidated with no
\* call); with no endpoint no call is issued at all.
C24_IntrospectThenRefresh ==
  SessionUpdateRan =>
    /\ RefreshDueAtStart => (calls = <<>> \/ calls[1].kind = "refresh")
    /\ (~RefreshDueAtStart /\ introspect_url) =>
         /\ calls # <<>>
         /\ calls[1].kind = "introspect"
         /\ Len(calls) >= 2 => calls[2].kind = "refresh"
         /\ CalledKind("refresh") <=>
              (calls[1].out \in {"fail", "inactive"} /\ pre.refresh_token # NULL)
         /\ (calls[1].out \in {"fail", "inactive"} /\ pre.refresh_token = NULL) =>
              data.invalidated # NoTs
    /\ (~RefreshDueAtStart /\ ~introspect_url) => calls = <<>>

C24_Witness ==
  /\ SessionUpdateRan
  /\ ~RefreshDueAtStart
  /\ Len(calls) = 3
  /\ calls[1].kind = "introspect"
  /\ calls[1].out = "inactive"
  /\ calls[2].kind = "refresh"

\* C25: after a refresh that returned an access_token, update() issues one
\* more call, an introspection of that access_token; when it fails the
\* session is not invalidated and keeps the tokens the refresh wrote.
C25_ReintrospectAfterRefresh ==
  (SessionUpdateRan /\ introspect_url) =>
    \A i \in 1..Len(calls) :
      (calls[i].kind = "refresh" /\ calls[i].out \notin {"fail", NULL}) =>
        /\ Len(calls) = i + 1
        /\ calls[i + 1].kind = "introspect"
        /\ calls[i + 1].token = calls[i].out
        /\ calls[i + 1].out = "fail" =>
             /\ data.invalidated = NoTs
             /\ data.access_token = calls[i].out
             /\ calls[i].rt # NULL =>
                  (data.refresh_token = calls[i].rt /\ data.refreshed = data.updated)

C25_Witness ==
  /\ SessionUpdateRan
  /\ pre.access_token = "A1"
  /\ Len(calls) = 2
  /\ calls[1].kind = "refresh"
  /\ calls[1].out = "A2"
  /\ calls[2].kind = "introspect"
  /\ calls[2].token = "A2"
  /\ calls[2].out = "fail"
  /\ data.refresh_token = "R2"

\* C26: when update() on a session_state session refreshed the tokens and
\* the introspection that follows failed, the session is authenticated
\* right after, whatever token_info held before.
C26_RefreshedUsable ==
  (/\ SessionUpdateRan
   /\ t0 = now
   /\ Len(calls) >= 2
   /\ calls[Len(calls) - 1].kind = "refresh"
   /\ Truthy(calls[Len(calls) - 1].out)
   /\ calls[Len(calls) - 1].out # "fail"
   /\ calls[Len(calls) - 1].rt # NULL
   /\ calls[Len(calls)].kind = "introspect"
   /\ calls[Len(calls)].out = "fail") =>
    is_authenticated(data, session_type, now)

\* C27: update() on a bearer session issues at most one introspection and
\* never enters the session_state case.
C27_BearerSeparateBranch ==
  (op = "update" /\ session_type = "bearer") =>
    /\ pc \in {"idle", "bearer_introspect"}
    /\ CallCount("introspect") <= 1

\* Every provider call of the operation failed.
AllCallsFailed ==
  /\ calls # <<>>
  /\ \A i \in 1..Len(calls) : calls[i].out = "fail"

\* C28: update() on a bearer session stamps invalidated exactly when an
\* introspection reported the token inactive; when its introspection only
\* failed, invalidated is what it was.
C28_BearerInvalidatedIffInactive ==
  (UpdateDone /\ session_type = "bearer" /\ ret = "true") =>
    /\ data.invalidated # pre.invalidated => Called("introspect", "inactive")
    /\ AllCallsFailed => data.invalidated = pre.invalidated

\* Every provider call of the operation succeeded, and every introspection
\* reported the token active.
AllCallsClean ==
  /\ calls # <<>>
  /\ \A i \in 1..Len(calls) : calls[i].out \notin {"fail", "inactive"}

\* C29: when update() runs on a session that has an access_token and is not
\* invalidated, every provider call succeeds and the token is reported
\* active, the session is authenticated right after, no time having elapsed,
\* also when the refresh response brought no refresh_token.
C29_CleanUpdateAuthenticates ==
  (/\ UpdateDone
   /\ session_type \in {"bearer", "session_state"}
   /\ ret = "true"
   /\ t0 = now
   /\ pre.invalidated = NoTs
   /\ AllCallsClean
   /\ data.token_info = "active") =>
    is_authenticated(data, session_type, now)

\* A provider call of the operation succeeded.
SomeCallSucceeded ==
  \E i \in 1..Len(calls) : calls[i].out # "fail"

\* C30 as stated: after an update() that issued a provider call, updated is
\* the time of that update(), whether the calls succeeded or failed.
C30_UpdatedStampsAttempt ==
  (UpdateDone /\ calls # <<>>) =>
    (data.updated >= t0 /\ data.updated <= t1)

\* C30: after an update() in which a provider call succeeded, updated is the
\* time of that update(); an update() whose calls all failed leaves updated
\* as it was.
C30_UpdatedStampsSuccess ==
  /\ (UpdateDone /\ SomeCallSucceeded) =>
       (data.updated >= t0 /\ data.updated <= t1)
  /\ (UpdateDone /\ AllCallsFailed) => data.updated = pre.updated

C30_Witness ==
  /\ UpdateDone
  /\ AllCallsFailed
  /\ Len(calls) = 2
  /\ pre.updated # NoTs
  /\ pre.updated < t0
  /\ data.updated = pre.updated
  /\ data.invalidated = t1

\* C31: after an update() in which an introspection succeeded, introspected
\* is the time of that update().
C31_IntrospectedStamped ==
  (/\ UpdateDone
   /\ \E i \in 1..Len(calls) :
        calls[i].kind = "introspect" /\ calls[i].out # "fail") =>
    (data.introspected >= t0 /\ data.introspected <= t1)

\* What applying response resp to data d at time t must give: the non-null
\* entries of the response written, every other field kept, updated stamped,
\* refreshed stamped with a refresh_token, invalidated cleared with an
\* access_token.
AppliedExactly(d, resp, t, d2) ==
  /\ \A f \in Fields : d2[f] = IF resp[f] # NULL THEN resp[f] ELSE d[f]
  /\ d2.updated = t
  /\ d2.refreshed = IF resp.refresh_token # NULL THEN t ELSE d.refreshed
  /\ d2.invalidated = IF Truthy(resp.access_token) THEN NoTs ELSE d.invalidated
  /\ d2.introspected = d.introspected

\* C32: a provider response applied to the session overwrites exactly the
\* fields that are non-null in it, with the stamps updated and refreshed and
\* the clearing of invalidated; the fields it leaves out keep their values,
\* the old refresh_token in particular.
C32_ResponseOverwritesNonNull ==
  /\ \A resp \in TokenResponses \cup {InfoResp(ti) : ti \in TokenInfos} :
       AppliedExactly(data, resp, now, update_session_data(data, resp, now))
  /\ (op = "exchange" /\ calls[1].rt = NULL) =>
       data.refresh_token = pre.refresh_token

C32_Witness ==
  /\ op = "exchange"
  /\ calls[1].out = "A2"
  /\ calls[1].rt = NULL
  /\ pre.refresh_token = "R1"
  /\ pre.access_token = "A1"
  /\ data.refresh_token = "R1"
  /\ data.access_token = "A2"
  /\ data.id_token = "I1"

\* Nothing was due when the update() started on a valid session.
NothingDue ==
  /\ is_valid_session(pre, session_type)
  /\ ~needs_update(pre, session_type, t0)

\* C33: a forced update() on a valid session with nothing due still makes
\* its provider calls, saves and returns true; forced on a session without
\* access_token or on an invalidated session_state session it is a no-op
\* that returns false; an unforced update() with nothing due makes no call,
\* does not save and returns false.
C33_ForceBypassesNeedsUpdate ==
  (UpdateDone /\ session_type \in {"bearer", "session_state"}) =>
    /\ (force /\ NothingDue) =>
         /\ ret = "true"
         /\ saves = 1
         /\ introspect_url => calls # <<>>
    /\ (/\ force
        /\ \/ pre.access_token = NULL
           \/ session_type = "session_state" /\ pre.invalidated # NoTs) =>
         (UpdateNoOp /\ data = pre)
    /\ (~force /\ NothingDue) => UpdateNoOp

C33_Witness ==
  /\ UpdateDone
  /\ force
  /\ NothingDue
  /\ session_type = "session_state"
  /\ ret = "true"
  /\ saves = 1
  /\ Called("introspect", "active")

\* C34: an update() on an invalidated session_state session, forced or not,
\* makes no provider call and returns false, and an invalidated
\* session_state session is not authenticated.
C34_InvalidationAbsorbing ==
  /\ (/\ UpdateDone
      /\ session_type = "session_state"
      /\ pre.invalidated # NoTs) =>
       (UpdateNoOp /\ data = pre)
  /\ (session_type = "session_state" /\ data.invalidated # NoTs) =>
       ~is_authenticated(data, session_type, now)

C34_Witness ==
  /\ UpdateDone
  /\ force
  /\ session_type = "session_state"
  /\ pre.invalidated # NoTs
  /\ pre.access_token # NULL
  /\ now > pre.invalidated
  /\ ret = "false"

\* C35: the session object and the cache entry change only in a step that
\* calls save() (or when the cache drops the entry).
C35_StoreChangesOnlyInSave ==
  [][(stored' # stored \/ (cache' # cache /\ cache' # NoData)) =>
       (saves' = 1 /\ pc' = "idle")]_vars

C38_NoUrlRequestedTwice ==
  \A i, j \in 1..Len(rq.requested) :
    i < j => rq.requested[i] # rq.requested[j]

\* C39: in the browser's websocket client every api_call that is settled
\* was settled by the response carrying its rid (resolved, or rejected when
\* the response carries an error) or by its timeout.
C39_SettledByResponseOrTimeout ==
  \A c \in Calls :
    ws.calls[c].state = "settled" =>
      ws.calls[c].by \in {"response", "error", "timeout"}

====
